---- MODULE Spec2Model ----
(***************************************************************************)
(* Model of src/src/BenchmarkController.tsx: the benchmark controller      *)
(* (React state, the two refs, the layout effect and triggerSwitch), the   *)
(* keyed list rendering, the date offset of LocalCard and shuffleArray.    *)
(*                                                                         *)
(* React state is modelled as React keeps it: a setter called by a handler *)
(* or an effect appends an update to a queue, the next render pass applies *)
(* the queued updates in order, the layout effect runs after that pass,    *)
(* and an update queued by the layout effect is flushed by a further       *)
(* synchronous render pass before the commit step returns.                 *)
(***************************************************************************)
EXTENDS Integers, Sequences, FiniteSets, TLC

(* ------------------------------ bounds --------------------------------- *)
MaxTime == 2          \* performance.now() is observed in 1..MaxTime
MaxTriggers == 2      \* triggerSwitch calls in one run
NumBatches == 1       \* batches of the dataset (new Array(20) in the source)
NUM_OF_ITEMS == 2     \* items of a batch (50 in the source)
MaxCalls == 2         \* LocalCard renders recorded when it is checked alone
MaxDay == 1           \* the wall clock runs over the days 0..MaxDay

(* ----------------------------- vocabulary ------------------------------ *)
Variants == {"native", "intlayer"}
NoVariant == "null"
Other(v) == IF v = "native" THEN "intlayer" ELSE "native"
NextLocales == {"fr", "de"}
DisplayLocales == {"en"} \cup NextLocales

\* Mutation: the locale of every trigger goes to the native section.
LocaleHookNativeOnly(v) == "nativeLocale"

LocaleHook(v) == IF v = "native" THEN "nativeLocale" ELSE "intlayerLocale"
RenderKeyHook(v) == IF v = "native" THEN "nativeRenderKey" ELSE "intlayerRenderKey"

(* --------------------- locale identifiers as text ---------------------- *)
\* A locale identifier is the sequence of its UTF-16 code units, so that
\* charCodeAt and string concatenation are computed as JavaScript does.
Hyphen == <<45>>                       \* "-"
Locale_es == <<101, 115>>              \* "es"
Locale_fr == <<102, 114>>              \* "fr"
Locale_enGB == <<101, 110, 45, 71, 66>> \* "en-GB"
Locale_frFR == <<102, 114, 45, 70, 82>> \* "fr-FR"

\* Object.values(Locales.ALL_LOCALES): the catalog supplied by intlayer,
\* here three of its identifiers.
allLocales == <<Locale_es, Locale_fr, Locale_enGB>>

RECURSIVE DecimalDigits(_)
\* Number -> string conversion of a template literal, for n >= 0.
DecimalDigits(n) ==
  IF n < 10 THEN <<48 + n>>
  ELSE DecimalDigits(n \div 10) \o <<48 + (n % 10)>>

(* ----------------------------- shuffleArray ---------------------------- *)
\* The outcomes of Math.floor(Math.random() * (i + 1)) for i = n-1 .. 1:
\* rnd[i] \in 0..i.
RandomChoices(n) ==
  {rnd \in [1..(n - 1) -> 0..(n - 1)] : \A i \in 1..(n - 1) : rnd[i] <= i}

\* Mutation: the second assignment of the swap is lost.
SwapOverwrite(a, i, j) == [a EXCEPT ![i + 1] = a[j + 1]]

\* [shuffled[i], shuffled[j]] = [shuffled[j], shuffled[i]] (0-based i, j)
Swap(a, i, j) == [a EXCEPT ![i + 1] = a[j + 1], ![j + 1] = a[i + 1]]

RECURSIVE ShuffleLoop(_, _, _)
\* for (let i = shuffled.length - 1; i > 0; i--) { swap i, randomIndex }
ShuffleLoop(shuffled, i, rnd) ==
  IF i > 0 THEN ShuffleLoop(Swap(shuffled, i, rnd[i]), i - 1, rnd)
  ELSE shuffled

\* Array.prototype.slice(0, limit) for limit >= 0
Slice(a, limit) == SubSeq(a, 1, IF limit < Len(a) THEN limit ELSE Len(a))

\* const shuffled = [...array]: a fresh array, not an alias of the argument
SpreadCopy(array) == [elems |-> array, alias |-> FALSE]

\* shuffleArray(array, limit) under the random outcomes rnd: the value
\* returned and the argument array as the call leaves it.
shuffleArray(array, limit, rnd) ==
  LET copy == SpreadCopy(array)
      shuffled == ShuffleLoop(copy.elems, Len(copy.elems) - 1, rnd)
  IN [ret |-> IF limit # 0 THEN Slice(shuffled, limit) ELSE shuffled,
      array |-> IF copy.alias THEN shuffled ELSE array]

(* ------------------------------ LocalCard ------------------------------ *)
RECURSIVE SumCharCodes(_)
\* locale.split("").reduce((acc, char) => acc + char.charCodeAt(0), 0)
SumCharCodes(locale) ==
  IF locale = <<>> THEN 0 ELSE Head(locale) + SumCharCodes(Tail(locale))

uniqueOffset(locale) == SumCharCodes(locale)

\* Mutation: the shift without the generation term.
DayShiftWithoutRenderKey(locale, renderKey) == uniqueOffset(locale)

\* renderKey * 365 + uniqueOffset: the days dynamicDate is shifted by
DayShift(locale, renderKey) == renderKey * 365 + uniqueOffset(locale)

\* new Date(): the wall clock, as a calendar day and a time of day
NewDate(wallClock) == [day |-> wallClock.day, tod |-> wallClock.tod]

\* Mutation: setDate(days) without getDate().
SetDateAbsolute(date, days) == [date EXCEPT !.day = days]

\* date.setDate(date.getDate() + days): same time of day, days later
SetDate(date, days) == [date EXCEPT !.day = @ + days]

\* The instant LocalCard formats when it renders at wallClock.
dynamicDate(locale, renderKey, wallClock) ==
  SetDate(NewDate(wallClock), DayShift(locale, renderKey))

(* ---------------------------- LocalCardList ---------------------------- *)
\* Mutation: the key without the generation, `${locale}-${index}`.
CardKeyWithoutRenderKey(locale, index, renderKey) ==
  locale \o Hyphen \o DecimalDigits(index)

\* key={`${locale}-${index}-${renderKey}`}
CardKey(locale, index, renderKey) ==
  locale \o Hyphen \o DecimalDigits(index) \o Hyphen \o DecimalDigits(renderKey)

\* React reconciles the children of one list by key: a child whose key was
\* in the previous render keeps its instance and is updated, any other child
\* is mounted as a new instance (and the instances whose keys are gone are
\* unmounted).
LocalCardList(oldRow, localeList, renderKey) ==
  [i \in 1..Len(localeList) |->
     LET k == CardKey(localeList[i], i - 1, renderKey)
     IN [key |-> k,
         locale |-> localeList[i],
         life |-> IF \E j \in 1..Len(oldRow) : oldRow[j].key = k
                  THEN "updated" ELSE "mounted",
         shift |-> DayShift(localeList[i], renderKey)]]

\* Mutation: the rows are put in a new order by every render instead of
\* being taken from the state as they are.
LanguageSectionRendererReordering(section, localeList, displayLocale, renderKey) ==
  IF section.displayLocale = displayLocale /\ section.renderKey = renderKey
  THEN section
  ELSE [displayLocale |-> displayLocale,
        renderKey |-> renderKey,
        rows |-> [r \in 1..Len(localeList) |->
                    LocalCardList(section.rows[r],
                                  [i \in 1..Len(localeList[r]) |->
                                     localeList[r][Len(localeList[r]) + 1 - i]],
                                  renderKey)]]

\* Mutation: LocalCardList without memo, rendered on every pass.
LanguageSectionRendererWithoutMemo(section, localeList, displayLocale, renderKey) ==
  [displayLocale |-> displayLocale,
   renderKey |-> renderKey,
   rows |-> [r \in 1..Len(localeList) |->
               LocalCardList(section.rows[r], localeList[r], renderKey)]]

\* LanguageSectionRenderer over the dataset rows.  LocalCardList is wrapped
\* in memo: with unchanged props (same row, displayLocale, IntlConstructor
\* and renderKey) it is not rendered again and its cards are left alone.
LanguageSectionRenderer(section, localeList, displayLocale, renderKey) ==
  IF section.displayLocale = displayLocale /\ section.renderKey = renderKey
  THEN section
  ELSE [displayLocale |-> displayLocale,
        renderKey |-> renderKey,
        rows |-> [r \in 1..Len(localeList) |->
                    LocalCardList(section.rows[r], localeList[r], renderKey)]]

\* The section before its first render: no props, no cards.
Unmounted(localeList) ==
  [displayLocale |-> "", renderKey |-> -1,
   rows |-> [r \in 1..Len(localeList) |-> <<>>]]

\* The cards of a section with the marks of the previous commit step erased.
Settled(section) ==
  [section EXCEPT !.rows =
     [r \in 1..Len(section.rows) |->
        [i \in 1..Len(section.rows[r]) |-> [section.rows[r][i] EXCEPT !.life = "kept"]]]]

VARIABLES
  arrayOfLocale,                       \* the dataset, built at module load
  cards,                               \* per variant: the rendered section
  nativeLocale, intlayerLocale,        \* useState("en")
  nativeRenderKey, intlayerRenderKey,  \* useState(0)
  nativeTime, intlayerTime,            \* useState(0)
  startTimeRef, activeBenchmarkRef,    \* useRef(0), useRef(null)
  queue,                               \* state updates not yet rendered
  mounted,                             \* BenchmarkController is in the tree
  now,                                 \* the clock read by performance.now()
  triggers,                            \* history: triggerSwitch calls per variant
  trigAt,                              \* history: clock at a variant's latest trigger
  open,                                \* history: variant triggered, no capture stored for it since
  last,                                \* history: the step that led here
  shuffleCall,                         \* a call of shuffleArray: arguments and outcome
  wallClock,                           \* the clock read by new Date()
  cardCalls                            \* LocalCard renders: inputs, time and date

vars == <<arrayOfLocale, cards, nativeLocale, intlayerLocale, nativeRenderKey, intlayerRenderKey,
          nativeTime, intlayerTime, startTimeRef, activeBenchmarkRef,
          queue, mounted, now, triggers, trigAt, open, last,
          shuffleCall, wallClock, cardCalls>>

ctlVars == <<arrayOfLocale, cards, nativeLocale, intlayerLocale, nativeRenderKey,
             intlayerRenderKey, nativeTime, intlayerTime, startTimeRef,
             activeBenchmarkRef, queue, mounted, now, triggers, trigAt, open, last>>
pureVars == <<shuffleCall, wallClock, cardCalls>>

(* --------------------------- React state ------------------------------- *)
\* One queued update: a plain value (fn = "set") or an updater k => k + 1
\* (fn = "inc").
SetUpdate(hook, value) == [hook |-> hook, fn |-> "set", arg |-> value]
\* Mutation: the value captured by the handler's closure plus one, instead
\* of an updater (setNativeRenderKey(nativeRenderKey + 1)).
IncUpdateFromClosure(hook) ==
  [hook |-> hook, fn |-> "set",
   arg |-> (IF hook = "nativeRenderKey" THEN nativeRenderKey ELSE intlayerRenderKey) + 1]

IncUpdate(hook) == [hook |-> hook, fn |-> "inc", arg |-> 0]

RECURSIVE ApplyQueue(_, _, _)
\* The value a hook has in the next render: the queued updates of that hook
\* applied in order to the current value.
ApplyQueue(hook, value, q) ==
  IF q = <<>> THEN value
  ELSE LET u == Head(q)
           v1 == IF u.hook # hook THEN value
                 ELSE IF u.fn = "set" THEN u.arg ELSE value + 1
       IN ApplyQueue(hook, v1, Tail(q))

\* The controller's hooks and refs as one record.
Controller ==
  [nativeLocale |-> nativeLocale, intlayerLocale |-> intlayerLocale,
   nativeRenderKey |-> nativeRenderKey, intlayerRenderKey |-> intlayerRenderKey,
   nativeTime |-> nativeTime, intlayerTime |-> intlayerTime,
   startTimeRef |-> startTimeRef, activeBenchmarkRef |-> activeBenchmarkRef,
   queue |-> queue, cards |-> cards]

\* A render pass of BenchmarkController: every useState returns its value
\* with the queued updates applied; the queue is consumed.
RenderHooks(c) ==
  [c EXCEPT !.nativeLocale = ApplyQueue("nativeLocale", c.nativeLocale, c.queue),
            !.intlayerLocale = ApplyQueue("intlayerLocale", c.intlayerLocale, c.queue),
            !.nativeRenderKey = ApplyQueue("nativeRenderKey", c.nativeRenderKey, c.queue),
            !.intlayerRenderKey = ApplyQueue("intlayerRenderKey", c.intlayerRenderKey, c.queue),
            !.nativeTime = ApplyQueue("nativeTime", c.nativeTime, c.queue),
            !.intlayerTime = ApplyQueue("intlayerTime", c.intlayerTime, c.queue),
            !.queue = <<>>]

\* The render pass with its two sections: "Intlayer Area" gets
\* intlayerLocale / intlayerRenderKey, "Native Area" gets nativeLocale /
\* nativeRenderKey, both over the same arrayOfLocale.
RenderPass(c, localeList) ==
  LET h == RenderHooks(c)
  IN [h EXCEPT !.cards =
        [v \in Variants |->
           IF v = "intlayer"
           THEN LanguageSectionRenderer(c.cards[v], localeList,
                                        h.intlayerLocale, h.intlayerRenderKey)
           ELSE LanguageSectionRenderer(c.cards[v], localeList,
                                        h.nativeLocale, h.nativeRenderKey)]]

(* --------------------------- layout effect ----------------------------- *)
\* Mutation: the effect captures without testing the refs.
WindowOpenUnchecked(start, active) == TRUE

\* if (startTimeRef.current > 0 && activeBenchmarkRef.current)
WindowOpen(start, active) == start > 0 /\ active # NoVariant

\* Mutation: the operands of the subtraction exchanged.
DurationReversed(t, start) == start - t

\* const duration = performance.now() - startTimeRef.current
Duration(t, start) == t - start

\* Mutation: the two setters exchanged.
TimeHookSwapped(active) == IF active = "native" THEN "intlayerTime" ELSE "nativeTime"

\* if (activeBenchmarkRef.current === "native") setNativeTime(duration);
\* else setIntlayerTime(duration);
TimeHook(active) == IF active = "native" THEN "nativeTime" ELSE "intlayerTime"

\* Mutation: the two resets are left out.
CloseWindowForgotten(c) == c

\* Mutation: only the start timestamp is reset.
CloseWindowStartOnly(c) == [c EXCEPT !.startTimeRef = 0]

\* startTimeRef.current = 0; activeBenchmarkRef.current = null;
CloseWindow(c) == [c EXCEPT !.startTimeRef = 0, !.activeBenchmarkRef = NoVariant]

\* The body of useLayoutEffect, run after a render pass has been committed.
LayoutEffect(c, t) ==
  IF WindowOpen(c.startTimeRef, c.activeBenchmarkRef)
  THEN CloseWindow([c EXCEPT !.queue = Append(c.queue,
                                SetUpdate(TimeHook(c.activeBenchmarkRef),
                                          Duration(t, c.startTimeRef)))])
  ELSE c

\* Bound on the render passes of one commit step (a pass that queues no
\* update is the last one).
MaxPasses == 3

RECURSIVE CommitLoop(_, _, _, _)
\* Render, commit, run the layout effect; an update queued by the effect is
\* flushed synchronously by another pass.  Returns the controller and the
\* number of passes made.
CommitLoop(c, localeList, t, n) ==
  LET c1 == LayoutEffect(RenderPass(c, localeList), t)
  IN IF c1.queue = <<>> \/ n + 1 >= MaxPasses
     THEN [c |-> c1, passes |-> n + 1]
     ELSE CommitLoop(c1, localeList, t, n + 1)

(* ------------------------------ actions -------------------------------- *)
\* new Array(20).fill(0).map(() => shuffleArray(allLocales, NUM_OF_ITEMS))
Datasets ==
  [1..NumBatches ->
     {shuffleArray(allLocales, NUM_OF_ITEMS, rnd).ret :
        rnd \in RandomChoices(Len(allLocales))}]

NoCall == [array |-> <<>>, limit |-> 0, done |-> FALSE, ret |-> <<>>, after |-> <<>>]

\* The state after module load and the first mount of BenchmarkController.
Mounted(dataset) ==
  /\ arrayOfLocale = dataset
  /\ cards = [v \in Variants |->
               LanguageSectionRenderer(Unmounted(arrayOfLocale), arrayOfLocale, "en", 0)]
  /\ nativeLocale = "en" /\ intlayerLocale = "en"
  /\ nativeRenderKey = 0 /\ intlayerRenderKey = 0
  /\ nativeTime = 0 /\ intlayerTime = 0
  /\ startTimeRef = 0 /\ activeBenchmarkRef = NoVariant
  /\ queue = <<>>
  /\ mounted = TRUE
  /\ now = 1
  /\ triggers = [v \in Variants |-> 0]
  /\ trigAt = [v \in Variants |-> 0]
  /\ open = [v \in Variants |-> FALSE]
  /\ last = [op |-> "init", type |-> NoVariant, captured |-> NoVariant, passes |-> 0]

Init ==
  /\ \E dataset \in Datasets : Mounted(dataset)
  /\ shuffleCall = NoCall
  /\ wallClock = [day |-> 0, tod |-> 0]
  /\ cardCalls = <<>>

\* The updates triggerSwitch(type) queues.
TriggerUpdates(type, nextLocale) ==
  <<SetUpdate(LocaleHook(type), nextLocale), IncUpdate(RenderKeyHook(type))>>

\* Mutation: the timestamp of an open window is kept.
StartStampKeptIfOpen(start, t) == IF start > 0 THEN start ELSE t

\* startTimeRef.current = performance.now(): the new value of the ref, given
\* its old value and the clock.
StartStamp(start, t) == t

\* triggerSwitch(type); nextLocale is the outcome of Math.random() > 0.5.
\* It is the onClick handler of the two buttons, which exist while the
\* controller is mounted.
triggerSwitch(type, nextLocale) ==
  /\ mounted
  /\ triggers["native"] + triggers["intlayer"] < MaxTriggers
  /\ activeBenchmarkRef' = type
  /\ startTimeRef' = StartStamp(startTimeRef, now)
  /\ queue' = queue \o TriggerUpdates(type, nextLocale)
  /\ triggers' = [triggers EXCEPT ![type] = @ + 1]
  /\ trigAt' = [trigAt EXCEPT ![type] = now]
  /\ open' = [open EXCEPT ![type] = TRUE]
  /\ last' = [op |-> "trigger", type |-> type, captured |-> NoVariant, passes |-> 0]
  /\ UNCHANGED <<arrayOfLocale, cards, nativeLocale, intlayerLocale,
                 nativeRenderKey, intlayerRenderKey, nativeTime, intlayerTime,
                 mounted, now>>
  /\ UNCHANGED pureVars

Trigger == \E type \in Variants, nextLocale \in NextLocales : triggerSwitch(type, nextLocale)

\* A completed render of BenchmarkController with its commit: the queued
\* updates are rendered and the layout effect runs (it has no dependency
\* list, so it runs on every commit, also on one caused by an unrelated
\* re-render).  op is the name the step is recorded under.
CommitAs(op) ==
  /\ mounted
  /\ \E r \in {CommitLoop([Controller EXCEPT
                              !.cards = [v \in Variants |-> Settled(cards[v])]],
                          arrayOfLocale, now, 0)} :
       LET captured == IF WindowOpen(startTimeRef, activeBenchmarkRef)
                       THEN activeBenchmarkRef ELSE NoVariant
       IN /\ nativeLocale' = r.c.nativeLocale
          /\ intlayerLocale' = r.c.intlayerLocale
          /\ nativeRenderKey' = r.c.nativeRenderKey
          /\ intlayerRenderKey' = r.c.intlayerRenderKey
          /\ nativeTime' = r.c.nativeTime
          /\ intlayerTime' = r.c.intlayerTime
          /\ startTimeRef' = r.c.startTimeRef
          /\ activeBenchmarkRef' = r.c.activeBenchmarkRef
          /\ queue' = r.c.queue
          /\ cards' = r.c.cards
          /\ open' = [v \in Variants |-> open[v] /\ v # captured]
          /\ last' = [op |-> op, type |-> NoVariant, captured |-> captured,
                      passes |-> r.passes]
          /\ UNCHANGED <<arrayOfLocale, mounted, now, triggers, trigAt>>
          /\ UNCHANGED pureVars

Commit == CommitAs("commit")

\* Mutation: LocalCard catches the error of the formatter and renders an
\* empty label, so the pass completes and commits.
RenderThrowsCaught == queue # <<>> /\ CommitAs("throw")

\* new IntlConstructor.DateTimeFormat(...) or formatter.format(...) throws
\* while the cards of a triggered variant render.  LocalCard does not catch
\* it and no component of the file is an error boundary: React commits
\* nothing of the pass, runs no layout effect and unmounts the tree.
RenderThrows ==
  /\ mounted
  /\ queue # <<>>
  /\ mounted' = FALSE
  /\ last' = [op |-> "throw", type |-> NoVariant, captured |-> NoVariant, passes |-> 0]
  /\ UNCHANGED <<arrayOfLocale, cards, nativeLocale, intlayerLocale,
                 nativeRenderKey, intlayerRenderKey, nativeTime, intlayerTime,
                 startTimeRef, activeBenchmarkRef, queue, now, triggers, trigAt, open>>
  /\ UNCHANGED pureVars

\* Time passes (handler gaps and the render work that precedes a commit).
Tick ==
  /\ now < MaxTime
  /\ now' = now + 1
  /\ last' = [op |-> "tick", type |-> NoVariant, captured |-> NoVariant, passes |-> 0]
  /\ UNCHANGED <<arrayOfLocale, cards, nativeLocale, intlayerLocale,
                 nativeRenderKey, intlayerRenderKey, nativeTime, intlayerTime,
                 startTimeRef, activeBenchmarkRef, queue, mounted, triggers,
                 trigAt, open>>
  /\ UNCHANGED pureVars

Next == Trigger \/ Commit \/ RenderThrows \/ Tick

Spec == Init /\ [][Next]_vars

(* ----------------------- shuffleArray on its own ----------------------- *)
\* Arrays of distinct identifiers of every length up to four.
TestCatalog == <<Locale_es, Locale_fr, Locale_enGB, Locale_frFR>>
TestArrays == {SubSeq(TestCatalog, 1, n) : n \in 0..Len(TestCatalog)}
TestLimits == 0..(Len(TestCatalog) + 1)

InitShuffle ==
  /\ \E dataset \in Datasets : Mounted(dataset)
  /\ \E a \in TestArrays, l \in TestLimits :
        shuffleCall = [NoCall EXCEPT !.array = a, !.limit = l]
  /\ wallClock = [day |-> 0, tod |-> 0]
  /\ cardCalls = <<>>

\* One call shuffleArray(array, limit), for every outcome of Math.random().
CallShuffle ==
  /\ ~shuffleCall.done
  /\ \E rnd \in RandomChoices(Len(shuffleCall.array)) :
        LET out == shuffleArray(shuffleCall.array, shuffleCall.limit, rnd)
        IN shuffleCall' = [shuffleCall EXCEPT !.done = TRUE, !.ret = out.ret,
                                              !.after = out.array]
  /\ UNCHANGED <<wallClock, cardCalls>>
  /\ UNCHANGED ctlVars

NextShuffle == CallShuffle

SpecShuffle == InitShuffle /\ [][NextShuffle]_vars

(* ------------------------- LocalCard on its own ------------------------ *)
\* One render of LocalCard: the date it formats, with the inputs and the
\* wall clock of the render.
RenderCard(locale, renderKey) ==
  /\ Len(cardCalls) < MaxCalls
  /\ cardCalls' = Append(cardCalls,
                     [locale |-> locale, renderKey |-> renderKey, at |-> wallClock,
                      date |-> dynamicDate(locale, renderKey, wallClock)])
  /\ UNCHANGED <<shuffleCall, wallClock>>
  /\ UNCHANGED ctlVars

Render == \E locale \in {allLocales[i] : i \in 1..Len(allLocales)},
             renderKey \in 0..MaxTriggers : RenderCard(locale, renderKey)

\* The wall clock advances: from the morning (tod 0) to the afternoon
\* (tod 1) of a day, then to the morning of the next day.
WallTick ==
  /\ \/ /\ wallClock.tod = 0
        /\ wallClock' = [wallClock EXCEPT !.tod = 1]
     \/ /\ wallClock.tod = 1 /\ wallClock.day < MaxDay
        /\ wallClock' = [day |-> wallClock.day + 1, tod |-> 0]
  /\ UNCHANGED <<shuffleCall, cardCalls>>
  /\ UNCHANGED ctlVars

NextCard == Render \/ WallTick

\* The dataset Math.random() yields when every randomIndex is i itself.
UnshuffledDataset == [b \in 1..NumBatches |-> Slice(allLocales, NUM_OF_ITEMS)]

InitCard ==
  /\ Mounted(UnshuffledDataset)
  /\ shuffleCall = NoCall
  /\ wallClock = [day |-> 0, tod |-> 0]
  /\ cardCalls = <<>>

SpecCard == InitCard /\ [][NextCard]_vars

(* ============================== properties ============================= *)
Locale(v) == IF v = "native" THEN nativeLocale ELSE intlayerLocale
RenderKey(v) == IF v = "native" THEN nativeRenderKey ELSE intlayerRenderKey
Time(v) == IF v = "native" THEN nativeTime ELSE intlayerTime

\* The generation the next render shows: the queued updaters applied.
generation(v) == ApplyQueue(RenderKeyHook(v), RenderKey(v), queue)

\* C1 - Window isolation: a step changes a variant's lastDuration only if it
\* is a commit whose capture belongs to that variant, and a capture for a
\* variant finds that variant triggered and not yet captured, stores the
\* clock minus the clock at that variant's latest trigger, and leaves the
\* other variant's lastDuration as it was.
C1_WindowIsolation ==
  [][\A v \in Variants :
        /\ (Time(v)' # Time(v)) => (last'.op = "commit" /\ last'.captured = v)
        /\ (last'.op = "commit" /\ last'.captured = v) =>
              /\ open[v]
              /\ Time(v)' = now - trigAt[v]
              /\ Time(Other(v))' = Time(Other(v))]_vars

\* Both variants were triggered (intlayer first), the commit captured native
\* only and intlayerTime still has its initial value.
C1_Witness ==
  /\ last.op = "commit" /\ last.captured = "native"
  /\ triggers["intlayer"] > 0 /\ open["intlayer"]
  /\ nativeTime > 0 /\ intlayerTime = 0

\* C2 - Every measurement completes: after a commit no triggered variant is
\* left without its capture, also when the other variant was triggered
\* between the trigger and the commit.
C2_EveryMeasurementCompletes ==
  last.op = "commit" => \A v \in Variants : ~open[v]

\* C3 - Monotonic generation: a variant's generation equals the number of
\* its triggers (as the value its queued updaters yield, and as the rendered
\* renderKey whenever no update is pending); each trigger of the variant
\* raises it by exactly 1, no other step changes it, and the rendered
\* renderKey never decreases.
C3_MonotonicGeneration ==
  /\ [](\A v \in Variants :
          /\ generation(v) = triggers[v]
          /\ (queue = <<>> => RenderKey(v) = triggers[v]))
  /\ [][\A v \in Variants :
          /\ RenderKey(v)' >= RenderKey(v)
          /\ generation(v)' = generation(v)
                + (IF last'.op = "trigger" /\ last'.type = v THEN 1 ELSE 0)]_vars

\* native was triggered twice before one commit rendered both updates.
C3_Witness ==
  /\ last.op = "commit" /\ last.captured = "native" /\ last.passes = 2
  /\ triggers["native"] = 2 /\ nativeRenderKey = 2
  /\ trigAt["native"] = now /\ nativeTime = 0

\* C4 - Stale commit is a no-op: a commit that finds no open window (start
\* timestamp 0 or no active variant) changes no lastDuration, no generation,
\* no displayLocale, and leaves the window closed.
C4_StaleCommitNoOp ==
  [][(last'.op = "commit" /\ (startTimeRef = 0 \/ activeBenchmarkRef = NoVariant)) =>
        /\ UNCHANGED <<nativeTime, intlayerTime>>
        /\ UNCHANGED <<nativeRenderKey, intlayerRenderKey>>
        /\ UNCHANGED <<nativeLocale, intlayerLocale>>
        /\ UNCHANGED <<startTimeRef, activeBenchmarkRef>>]_vars

\* A commit found the window closed after an earlier commit had captured a
\* duration.
C4_Witness ==
  /\ last.op = "commit" /\ last.captured = NoVariant
  /\ startTimeRef = 0 /\ activeBenchmarkRef = NoVariant
  /\ nativeTime > 0

\* C5 - Non-negative duration: both lastDuration values are >= 0 in every
\* state, and the start timestamp of an open window is never later than the
\* clock.
C5_NonNegativeDuration ==
  /\ nativeTime >= 0 /\ intlayerTime >= 0
  /\ startTimeRef <= now

\* A capture stored a positive duration.
C5_Witness ==
  last.op = "commit" /\ last.captured = "intlayer" /\ intlayerTime > 0

\* The state right after the commit that follows a single trigger of
\* intlayer from the initial state.
SingleTriggerCommitted ==
  /\ last.op = "commit" /\ last.captured = "intlayer"
  /\ triggers["intlayer"] = 1 /\ triggers["native"] = 0

\* C6 as claimed - Single trigger scenario: the commit after one trigger of
\* intlayer yields intlayer generation 1 and lastDuration > 0, native
\* unchanged.
C6_SingleTriggerPositive ==
  SingleTriggerCommitted =>
    /\ intlayerRenderKey = 1 /\ intlayerTime > 0
    /\ nativeLocale = "en" /\ nativeRenderKey = 0 /\ nativeTime = 0

\* C6 as amended - the commit after one trigger of intlayer yields intlayer
\* generation 1 and lastDuration = clock at the commit minus clock at the
\* trigger, which is >= 0 and is > 0 exactly when the clock advanced in
\* between; native is unchanged.
C6_SingleTrigger ==
  SingleTriggerCommitted =>
    /\ intlayerRenderKey = 1
    /\ intlayerTime = now - trigAt["intlayer"]
    /\ intlayerTime >= 0
    /\ (intlayerTime > 0 <=> now > trigAt["intlayer"])
    /\ nativeLocale = "en" /\ nativeRenderKey = 0 /\ nativeTime = 0

\* The single-trigger commit happened after the clock had advanced.
C6_Witness ==
  SingleTriggerCommitted /\ intlayerTime > 0 /\ intlayerRenderKey = 1

KeysOf(row) == {row[i].key : i \in 1..Len(row)}
IsDistinct(seq) == \A i, j \in 1..Len(seq) : i # j => seq[i] # seq[j]
ElementsOf(seq) == {seq[i] : i \in 1..Len(seq)}

\* C7 - Forced full remount: the item keys of one rendered list are pairwise
\* distinct, and a commit that renders a trigger of a variant gives every
\* item of that variant a key its list did not have in the previous render,
\* so every LocalCard of the variant is mounted anew, none is updated or kept.
C7_ForcedRemount ==
  /\ [](\A v \in Variants : \A r \in 1..Len(cards[v].rows) :
          \A i, j \in 1..Len(cards[v].rows[r]) :
             i # j => cards[v].rows[r][i].key # cards[v].rows[r][j].key)
  /\ [][\A v \in Variants :
          (last'.op = "commit" /\ RenderKey(v)' # RenderKey(v)) =>
             \A r \in 1..Len(cards'[v].rows) : \A i \in 1..Len(cards'[v].rows[r]) :
                /\ cards'[v].rows[r][i].life = "mounted"
                /\ cards'[v].rows[r][i].key \notin KeysOf(cards[v].rows[r])]_vars

\* The second trigger of native has been rendered: its cards are all new,
\* those of intlayer were left alone.
C7_Witness ==
  /\ last.op = "commit" /\ nativeRenderKey = 2 /\ cards["native"].renderKey = 2
  /\ \A r \in 1..Len(arrayOfLocale) : \A i \in 1..Len(arrayOfLocale[r]) :
        /\ cards["native"].rows[r][i].life = "mounted"
        /\ cards["intlayer"].rows[r][i].life = "kept"

\* C8 - Distinct dates per item: two items of one batch with different
\* locale identifiers are shifted by different numbers of days
\* (365 * generation + sum of the character codes of the locale).
C8_DistinctDayOffsets ==
  \A v \in Variants : \A r \in 1..Len(cards[v].rows) :
    \A i, j \in 1..Len(cards[v].rows[r]) :
      cards[v].rows[r][i].locale # cards[v].rows[r][j].locale =>
        cards[v].rows[r][i].shift # cards[v].rows[r][j].shift

\* C9 as claimed - Determinism: two renders of LocalCard with the same
\* locale and generation compute the same date instant, whenever they happen.
C9_DeterministicInstant ==
  \A i, j \in 1..Len(cardCalls) :
    (cardCalls[i].locale = cardCalls[j].locale
       /\ cardCalls[i].renderKey = cardCalls[j].renderKey) =>
      cardCalls[i].date = cardCalls[j].date

\* C9 as amended - two renders of LocalCard with the same locale and
\* generation shift the date by the same number of days; the instant is the
\* wall clock of the render moved by that many days at the same time of day.
C9_DeterministicShift ==
  \A i, j \in 1..Len(cardCalls) :
    (cardCalls[i].locale = cardCalls[j].locale
       /\ cardCalls[i].renderKey = cardCalls[j].renderKey) =>
      /\ cardCalls[i].date.day - cardCalls[i].at.day
            = cardCalls[j].date.day - cardCalls[j].at.day
      /\ cardCalls[i].date.tod = cardCalls[i].at.tod

\* The same card was rendered twice, on different days.
C9_Witness ==
  /\ Len(cardCalls) = 2
  /\ cardCalls[1].locale = cardCalls[2].locale
  /\ cardCalls[1].renderKey = cardCalls[2].renderKey
  /\ cardCalls[1].renderKey > 0
  /\ cardCalls[1].at.day # cardCalls[2].at.day

\* What C10 says of a finished call and of the dataset.
SampledWithoutReplacement ==
  /\ Len(shuffleCall.ret) = shuffleCall.limit
  /\ ElementsOf(shuffleCall.ret) \subseteq ElementsOf(shuffleCall.array)
  /\ IsDistinct(shuffleCall.ret)
  /\ shuffleCall.after = shuffleCall.array
  /\ Len(arrayOfLocale) = NumBatches
  /\ \A b \in 1..Len(arrayOfLocale) :
        /\ Len(arrayOfLocale[b]) = NUM_OF_ITEMS
        /\ ElementsOf(arrayOfLocale[b]) \subseteq ElementsOf(allLocales)
        /\ IsDistinct(arrayOfLocale[b])

\* C10 as claimed - Dataset sampling: for batchSize <= |catalog| every batch
\* returned by shuffleArray has exactly batchSize elements, all members of
\* the catalog and pairwise distinct, the catalog is not modified, and the
\* dataset has the fixed number of batches of the fixed size.
C10_SamplingAnyBatchSize ==
  (shuffleCall.done /\ shuffleCall.limit <= Len(shuffleCall.array)) =>
    SampledWithoutReplacement

\* C10 as amended - the same for 1 <= batchSize <= |catalog|.
C10_Sampling ==
  (shuffleCall.done /\ 1 <= shuffleCall.limit
     /\ shuffleCall.limit <= Len(shuffleCall.array)) =>
    SampledWithoutReplacement

\* A batch of 2 out of 4 that is not the first two of the catalog.
C10_Witness ==
  /\ shuffleCall.done /\ shuffleCall.limit = 2 /\ Len(shuffleCall.array) = 4
  /\ shuffleCall.ret = <<shuffleCall.array[4], shuffleCall.array[2]>>

\* C11 - ConfigurationError: a call of shuffleArray with batchSize greater
\* than the size of the catalog fails, it returns no batch (in particular no
\* shortened one).
C11_OversizedBatchRejected ==
  shuffleCall.limit > Len(shuffleCall.array) => ~shuffleCall.done

\* The locale identifiers a section shows, row by row.
ShownLocales(section) ==
  [r \in 1..Len(section.rows) |->
     [i \in 1..Len(section.rows[r]) |-> section.rows[r][i].locale]]

\* C12 - Dataset stability: no step changes the dataset, and in every state
\* both sections show, row by row, exactly the locale sequences of the one
\* dataset built at start.
C12_DatasetStability ==
  /\ [][arrayOfLocale' = arrayOfLocale]_vars
  /\ [](\A v \in Variants : ShownLocales(cards[v]) = arrayOfLocale)

\* Both variants have been triggered and rendered again over the dataset.
C12_Witness ==
  /\ last.op = "commit"
  /\ cards["native"].renderKey = 1 /\ cards["intlayer"].renderKey = 1
  /\ ShownLocales(cards["native"]) = arrayOfLocale
  /\ ShownLocales(cards["intlayer"]) = arrayOfLocale

\* C13 - Formatter failure leaves the duration stale: a render pass in which
\* the formatter throws commits nothing and captures nothing, no later step
\* changes a lastDuration, and a lastDuration changes only in a completed
\* commit that has rendered every trigger of that variant.
C13_FailureLeavesDurationStale ==
  [][\A v \in Variants :
        /\ last'.op = "throw" =>
              /\ Time(v)' = Time(v) /\ last'.captured = NoVariant
              /\ cards' = cards /\ ~mounted'
        /\ ~mounted => Time(v)' = Time(v)
        /\ Time(v)' # Time(v) =>
              /\ mounted' /\ last'.op = "commit"
              /\ cards'[v].renderKey = triggers[v]]_vars

\* After a capture for native, the render of a trigger of intlayer threw.
C13_Witness ==
  /\ ~mounted /\ last.op = "throw"
  /\ nativeTime > 0 /\ open["intlayer"] /\ intlayerTime = 0
  /\ activeBenchmarkRef = "intlayer"

\* The triggers of a variant that are queued and not yet rendered.
Pending(v) == generation(v) - RenderKey(v)

C15_WindowConsumedOnce ==
  [][last'.op = "commit" =>
        /\ startTimeRef' = 0 /\ activeBenchmarkRef' = NoVariant
        /\ \A v \in Variants :
              last'.captured = v =>
                 /\ open[v] /\ ~open'[v]
                 /\ Time(v)' = now - startTimeRef
        /\ last.op = "commit" =>
              /\ last'.captured = NoVariant
              /\ UNCHANGED <<nativeTime, intlayerTime>>]_vars

\* The commit after the capture for intlayer found nothing to capture.
C15_Witness ==
  /\ last.op = "commit" /\ last.captured = NoVariant /\ last.passes = 1
  /\ triggers["intlayer"] = 1 /\ ~open["intlayer"] /\ intlayerTime > 0

\* C16 - Every trigger changes all computed dates: a commit that renders k
\* triggers of a variant shifts every item of that variant by 365 * k days
\* more than in its previous render, so by a different number of days.
C16_TriggerChangesAllDates ==
  [][\A v \in Variants :
        (last'.op = "commit" /\ RenderKey(v)' # RenderKey(v)) =>
           \A r \in 1..Len(cards'[v].rows) : \A i \in 1..Len(cards'[v].rows[r]) :
              /\ cards'[v].rows[r][i].shift
                    = cards[v].rows[r][i].shift + 365 * (RenderKey(v)' - RenderKey(v))
              /\ cards'[v].rows[r][i].shift # cards[v].rows[r][i].shift]_vars

\* The first trigger of intlayer has been rendered: every item is shifted
\* by 365 days plus the sum of its character codes.
C16_Witness ==
  /\ last.op = "commit" /\ cards["intlayer"].renderKey = 1
  /\ \A r \in 1..Len(arrayOfLocale) : \A i \in 1..Len(arrayOfLocale[r]) :
        cards["intlayer"].rows[r][i].shift = 365 + SumCharCodes(arrayOfLocale[r][i])

\* C17 - Quiescence: every commit step ends with no update queued and the
\* window closed after at most two render passes, two exactly when the
\* layout effect captured a duration; a commit that directly follows a
\* commit makes one pass and changes no state and no ref.
C17_Quiescence ==
  [][last'.op = "commit" =>
        /\ queue' = <<>>
        /\ ~(startTimeRef' > 0 /\ activeBenchmarkRef' # NoVariant)
        /\ last'.passes <= 2
        /\ (last'.passes = 2 <=> last'.captured # NoVariant)
        /\ last.op = "commit" =>
              /\ last'.passes = 1
              /\ UNCHANGED <<nativeLocale, intlayerLocale, nativeRenderKey,
                             intlayerRenderKey, nativeTime, intlayerTime,
                             startTimeRef, activeBenchmarkRef, queue>>]_vars

\* A commit captured a duration, flushed it in a second pass and left
\* nothing queued.
C17_Witness ==
  /\ last.op = "commit" /\ last.passes = 2 /\ queue = <<>>
  /\ startTimeRef = 0 /\ activeBenchmarkRef = NoVariant
  /\ nativeTime > 0 /\ nativeRenderKey = 1

\* The cards of a section that were rendered (mounted or updated) in the
\* last commit step; each render of a card constructs one formatter.
RenderedCards(section) ==
  {p \in {<<r, i>> : r \in 1..Len(section.rows), i \in 1..NUM_OF_ITEMS} :
     /\ p[2] <= Len(section.rows[p[1]])
     /\ section.rows[p[1]][p[2]].life # "kept"}

DatasetItems ==
  {p \in {<<r, i>> : r \in 1..Len(arrayOfLocale), i \in 1..NUM_OF_ITEMS} :
     p[2] <= Len(arrayOfLocale[p[1]])}

\* The displayLocale the next render shows: the queued updates applied.
shownLocale(v) == ApplyQueue(LocaleHook(v), Locale(v), queue)

\* C18 - Render isolation: a trigger of one variant leaves the other
\* variant's displayLocale and generation (rendered and queued) unchanged; a
\* commit that leaves a variant's displayLocale and generation unchanged
\* renders none of its cards and keeps their keys; a commit that renders
\* triggers of one variant only renders exactly one card per dataset item
\* of that variant and none of the other.
C18_RenderIsolation ==
  [][\A v \in Variants :
        /\ (last'.op = "trigger" /\ last'.type = v) =>
              /\ Locale(Other(v))' = Locale(Other(v))
              /\ RenderKey(Other(v))' = RenderKey(Other(v))
              /\ shownLocale(Other(v))' = shownLocale(Other(v))
              /\ generation(Other(v))' = generation(Other(v))
        /\ (last'.op = "commit" /\ Locale(v)' = Locale(v)
              /\ RenderKey(v)' = RenderKey(v)) =>
              /\ RenderedCards(cards'[v]) = {}
              /\ \A r \in 1..Len(cards[v].rows) :
                    KeysOf(cards'[v].rows[r]) = KeysOf(cards[v].rows[r])
        /\ (last'.op = "commit" /\ RenderKey(v)' # RenderKey(v)
              /\ Locale(Other(v))' = Locale(Other(v))
              /\ RenderKey(Other(v))' = RenderKey(Other(v))) =>
              /\ RenderedCards(cards'[v]) = DatasetItems
              /\ RenderedCards(cards'[Other(v)]) = {}]_vars

\* The commit of a trigger of intlayer rendered every card of intlayer and
\* no card of native, and captured the duration in a second pass.
C18_Witness ==
  /\ last.op = "commit" /\ last.captured = "intlayer" /\ last.passes = 2
  /\ intlayerRenderKey = 1 /\ nativeRenderKey = 0
  /\ RenderedCards(cards["intlayer"]) = DatasetItems
  /\ RenderedCards(cards["native"]) = {}

\* C19 - Window well-formedness: the active-variant ref is non-null exactly
\* when the start timestamp ref is > 0; the refs change only together, set
\* by a trigger (to its variant and the clock) or cleared by a commit that
\* captures; the one pair of refs holds at most one variant.
C19_WindowWellFormed ==
  /\ [](/\ (activeBenchmarkRef # NoVariant <=> startTimeRef > 0)
        /\ activeBenchmarkRef \in Variants \cup {NoVariant})
  /\ [][(activeBenchmarkRef' # activeBenchmarkRef \/ startTimeRef' # startTimeRef) =>
          \/ /\ last'.op = "trigger"
             /\ activeBenchmarkRef' = last'.type /\ startTimeRef' = now
          \/ /\ last'.op = "commit" /\ last'.captured # NoVariant
             /\ activeBenchmarkRef' = NoVariant /\ startTimeRef' = 0]_vars

\* A window is open for intlayer after an earlier window of native was
\* captured and closed.
C19_Witness ==
  /\ activeBenchmarkRef = "intlayer" /\ startTimeRef = now /\ now > 1
  /\ nativeTime > 0 /\ ~open["native"]

====
